---- MODULE Spec2Model ----
(***************************************************************************)
(* A model of ntfy-to-slack (src/ntfy-to-slack.go): the supervisory loop   *)
(* of main, one call of waitForNtfyMessage (request, response, scanner     *)
(* loop, classification, dispatch) and the sendToSlack goroutines.         *)
(*                                                                         *)
(* Go strings are TLA+ strings, a nil error or nil pointer is Nil.  An     *)
(* inbound line is modelled by its JSON structure (syntax, keys, value     *)
(* types) after key folding: encoding/json matches keys to struct fields   *)
(* case-insensitively, the model's keys are already the folded ones.       *)
(***************************************************************************)
EXTENDS Integers, Sequences, FiniteSets, TLC

VARIABLES
    env,              \* the process environment (os.LookupEnv)
    args,             \* the command line (flag.Parse)
    ntfyDomain,       \* *string globals, Nil before flag.String
    ntfyTopic,
    ntfyAuth,
    slackWebhookUrl,
    pc,               \* position of the main goroutine
    req,              \* the request built by the current call of waitForNtfyMessage
    resp,             \* the response held by the current call
    streamBodies,     \* unclosed bodies of status-200 responses
    errorBodies,      \* whether the body of some other response was left unclosed
    scanErr,          \* scanner.Err() of the current call
    line,             \* scanner.Text()
    msg,              \* var msg ntfyMessage of the current iteration
    err,              \* the value waitForNtfyMessage returned
    log,              \* the last record the main goroutine logged
    tasks,            \* the sendToSlack goroutines alive, in spawn order
    slept,            \* durations of the time.Sleep calls since the last call
    attempts,         \* calls of waitForNtfyMessage so far (saturating)
    failures,         \* consecutive calls that returned an error (saturating)
    msgLines,         \* message events decoded by the current session
    spawned           \* go statements executed by the current session

config == <<env, args, ntfyDomain, ntfyTopic, ntfyAuth, slackWebhookUrl>>
session == <<req, resp, streamBodies, errorBodies, scanErr, line, msg, msgLines, spawned>>
loop == <<pc, err, log, slept, attempts, failures>>
vars == <<config, session, loop, tasks>>

----------------------------------------------------------------------------
(* Bounds of the model. *)

MaxAttempts == 1
MaxFailures == 2
MaxMessages == 2
MaxInFlight == 2

(* Program constants. *)

StatusOK == 200
ErrorStatusFloor == 400

(* A backoff that grows with the consecutive failures. *)
GrowingBackoff == 30 * (failures + 1)

BackoffSeconds == 30

Nil == "<nil>"
Unset == [ok |-> FALSE, value |-> ""]
Set(v) == [ok |-> TRUE, value |-> v]
NotGiven == [given |-> FALSE, value |-> ""]
Given(v) == [given |-> TRUE, value |-> v]

upstreamNtfyServer == "ntfy.sh"

Min(a, b) == IF a < b THEN a ELSE b

Contains(s, t) ==
    \E i \in 1..(Len(s) + 1 - Len(t)) : SubSeq(s, i, i + Len(t) - 1) = t

HasPrefix(s, t) == Len(s) >= Len(t) /\ SubSeq(s, 1, Len(t)) = t

FormatInt(n) == ToString(n)

----------------------------------------------------------------------------
(* Launches: environment and command line the process may be started with. *)

NoEnv == [NTFY_DOMAIN |-> Unset, NTFY_TOPIC |-> Unset, NTFY_AUTH |-> Unset,
          SLACK_WEBHOOK_URL |-> Unset]
NoArgs == [domain |-> NotGiven, topic |-> NotGiven, auth |-> NotGiven,
           webhook |-> NotGiven, v |-> FALSE]

Launches ==
    { \* everything from the environment, default domain
      [env |-> [NoEnv EXCEPT !.NTFY_TOPIC = Set("t"), !.NTFY_AUTH = Set("tk"),
                             !.SLACK_WEBHOOK_URL = Set("https://hooks.example/x")],
       args |-> NoArgs],
      \* topic by flag only: no credential, no webhook
      [env |-> NoEnv,
       args |-> [NoArgs EXCEPT !.topic = Given("t")]],
      \* a domain no URL can hold, flag over environment
      [env |-> [NoEnv EXCEPT !.NTFY_DOMAIN = Set("ntfy.example"), !.NTFY_TOPIC = Set("t")],
       args |-> [NoArgs EXCEPT !.domain = Given("bad host")]],
      \* the version flag
      [env |-> NoEnv,
       args |-> [NoArgs EXCEPT !.v = TRUE]] }

(* flag.String(name, default, usage) after flag.Parse: the flag's value   *)
(* when given on the command line, its default otherwise.                 *)
FlagString(arg, default) == IF arg.given THEN arg.value ELSE default

(* os.LookupEnv with the ok result dropped: "" when unset. *)
LookupEnvValue(e) == IF e.ok THEN e.value ELSE ""

defaultNtfyDomain(e) ==
    IF e.NTFY_DOMAIN.ok THEN e.NTFY_DOMAIN.value ELSE upstreamNtfyServer

----------------------------------------------------------------------------
(* Values of the session. *)

NoReq == [url |-> "", header |-> [Authorization |-> Nil]]
NoResp == [StatusCode |-> 0]
NoLine == [syntax |-> "none"]
ZeroMsg == [Id |-> "", Time |-> 0, Event |-> "", Topic |-> "", Title |-> "", Message |-> ""]
NoLog == [level |-> "", msg |-> ""]

Init ==
    /\ \E l \in Launches : env = l.env /\ args = l.args
    /\ ntfyDomain = Nil /\ ntfyTopic = Nil /\ ntfyAuth = Nil /\ slackWebhookUrl = Nil
    /\ pc = "start"
    /\ req = NoReq /\ resp = NoResp
    /\ streamBodies = 0 /\ errorBodies = FALSE
    /\ scanErr = Nil /\ line = NoLine /\ msg = ZeroMsg
    /\ err = Nil /\ log = NoLog
    /\ tasks = <<>>
    /\ slept = <<>> /\ attempts = 0 /\ failures = 0
    /\ msgLines = 0 /\ spawned = 0

(* main, lines 59-78: read the environment, define and parse the flags,   *)
(* leave on -v.                                                            *)
ParseFlags ==
    /\ pc = "start"
    /\ ntfyDomain' = FlagString(args.domain, defaultNtfyDomain(env))
    /\ ntfyTopic' = FlagString(args.topic, LookupEnvValue(env.NTFY_TOPIC))
    /\ ntfyAuth' = FlagString(args.auth, LookupEnvValue(env.NTFY_AUTH))
    /\ slackWebhookUrl' = FlagString(args.webhook, LookupEnvValue(env.SLACK_WEBHOOK_URL))
    /\ pc' = IF args.v THEN "exited" ELSE "call"
    /\ UNCHANGED <<env, args, session, err, log, slept, attempts, failures, tasks>>

----------------------------------------------------------------------------
(* Inbound lines.  A JSON value is [type, val]; an object maps its keys to *)
(* values.                                                                 *)

Str(s) == [type |-> "string", val |-> s]
Num(n) == [type |-> "number", val |-> n]
Obj(fields) == [syntax |-> "object", fields |-> fields]

LGarbage == [syntax |-> "invalid"]     \* {"event":"mess
LNull == [syntax |-> "null"]           \* null
LOpen ==
    Obj(("id" :> Str("0")) @@ ("time" :> Num(999)) @@ ("event" :> Str("open"))
        @@ ("topic" :> Str("t")))
LKeepalive == Obj("event" :> Str("keepalive"))
LMsgTitled ==
    Obj(("id" :> Str("1")) @@ ("time" :> Num(1000)) @@ ("event" :> Str("message"))
        @@ ("topic" :> Str("t")) @@ ("title" :> Str("Alert"))
        @@ ("message" :> Str("disk full")))
LMsgPlain ==
    Obj(("id" :> Str("2")) @@ ("time" :> Num(1001)) @@ ("event" :> Str("message"))
        @@ ("topic" :> Str("t")) @@ ("message" :> Str("ping")))
LMsgEmptyTitle ==
    Obj(("event" :> Str("message")) @@ ("title" :> Str("")) @@ ("message" :> Str("ping")))
LMsgBadTime ==
    Obj(("time" :> Str("now")) @@ ("event" :> Str("message")) @@ ("message" :> Str("ping")))
LPollRequest == Obj(("event" :> Str("poll_request")) @@ ("title" :> Str("Alert")))
LUpperEvent == Obj(("event" :> Str("MESSAGE")) @@ ("message" :> Str("ping")))
LNoEvent == Obj(("id" :> Str("3")) @@ ("message" :> Str("ping")))
LEmptyEvent == Obj(("event" :> Str("")) @@ ("message" :> Str("ping")))

Lines ==
    { LGarbage, LNull, LOpen, LKeepalive, LMsgTitled, LMsgPlain,
      LMsgEmptyTitle, LMsgBadTime, LPollRequest, LUpperEvent, LNoEvent, LEmptyEvent }

(* The struct fields of ntfyMessage with their JSON key and type. *)
StructFields ==
    { <<"Id", "id", "string">>, <<"Time", "time", "number">>,
      <<"Event", "event", "string">>, <<"Topic", "topic", "string">>,
      <<"Title", "title", "string">>, <<"Message", "message", "string">> }

(* json.Unmarshal(data, &into): invalid input fails and leaves into       *)
(* alone; null succeeds and leaves it alone; in an                         *)
(* object a key of the right type is stored, a null is skipped, and a      *)
(* value of the wrong type is skipped and reported after the other fields  *)
(* were stored.                                                            *)
Unmarshal(data, into) ==
    CASE data.syntax = "invalid" ->
            [err |-> "invalid character", msg |-> into]
      [] data.syntax = "null" ->
            [err |-> Nil, msg |-> into]
      [] OTHER ->
            LET o == data.fields
                has(f) == f[2] \in DOMAIN o
                fits(f) == has(f) /\ o[f[2]].type = f[3]
                clash(f) == has(f) /\ o[f[2]].type \notin {f[3], "null"}
                field(name) == CHOOSE f \in StructFields : f[1] = name
            IN  [err |-> IF \E f \in StructFields : clash(f)
                         THEN "json: cannot unmarshal into Go struct field"
                         ELSE Nil,
                 msg |-> [name \in DOMAIN into |->
                            IF fits(field(name)) THEN o[field(name)[2]].val
                            ELSE into[name]]]

----------------------------------------------------------------------------
(* waitForNtfyMessage. *)

InboundStatuses == {200, 204, 401, 500}
ScanEnds == {Nil, "read tcp: connection reset by peer", "bufio.Scanner: token too long"}

(* url.Parse inside http.NewRequest rejects a host holding a space. *)
NewRequestError(method, url) ==
    IF Contains(url, " ")
    THEN "parse \"" \o url \o "\": invalid character \" \" in host name"
    ELSE Nil

(* A subscription that resumes: every call after the first asks for what  *)
(* was published since.                                                    *)
SubscribeUrlSince ==
    "https://" \o ntfyDomain \o "/" \o ntfyTopic \o "/json"
        \o (IF attempts > 0 THEN "?since=30s" ELSE "")

(* Line 94: the URL of the subscription. *)
SubscribeUrl == "https://" \o ntfyDomain \o "/" \o ntfyTopic \o "/json"

(* Lines 101-103: the Authorization header of the subscription request. *)
AuthHeader == IF ntfyAuth # Nil THEN "Bearer " \o ntfyAuth ELSE Nil

(* The error returned for a response whose status is not 200 (line 111). *)
StatusError(status) == "invalid response code from ntfy"

(* The call returns e to main: its locals go out of scope. *)
Return(e) ==
    /\ err' = e
    /\ pc' = "returned"
    /\ failures' = IF e # Nil THEN Min(failures + 1, MaxFailures) ELSE 0
    /\ line' = NoLine
    /\ msg' = ZeroMsg

(* main line 81 and lines 91-103: call waitForNtfyMessage, build the request. *)
Call ==
    /\ pc = "call"
    /\ attempts' = Min(attempts + 1, MaxAttempts)
    /\ slept' = <<>>
    /\ resp' = NoResp /\ scanErr' = Nil /\ msgLines' = 0 /\ spawned' = 0
    /\ LET e == NewRequestError("GET", SubscribeUrl) IN
        IF e # Nil
        THEN /\ log' = [level |-> "ERROR", msg |-> "error getting ntfy response",
                        attrs |-> [err |-> e]]
             /\ req' = NoReq
             /\ Return(e)
        ELSE /\ req' = [url |-> SubscribeUrl, header |-> [Authorization |-> AuthHeader]]
             /\ pc' = "connecting"
             /\ UNCHANGED <<err, log, failures, line, msg>>
    /\ UNCHANGED <<config, streamBodies, errorBodies, tasks>>

(* Lines 105-108: client.Do fails. *)
ConnectFail ==
    /\ pc = "connecting"
    /\ LET e == "Get \"" \o req.url \o "\": dial tcp: connection refused" IN
        /\ log' = [level |-> "ERROR", msg |-> "error connecting to ntfy server",
                   attrs |-> [err |-> e]]
        /\ Return(e)
    /\ UNCHANGED <<config, req, resp, streamBodies, errorBodies, scanErr, msgLines,
                   spawned, slept, attempts, tasks>>

(* A response handler without the return of line 111: a status other     *)
(* than 200 is logged and the body is streamed all the same.               *)
RespondNoReturn(status) ==
    /\ pc = "connecting"
    /\ resp' = [StatusCode |-> status]
    /\ log' = IF status # StatusOK
              THEN [level |-> "ERROR", msg |-> "invalid status code",
                    attrs |-> [expected |-> StatusOK, domain |-> ntfyDomain,
                               statusCode |-> FormatInt(status)]]
              ELSE log
    /\ streamBodies' = streamBodies + 1
    /\ pc' = "streaming"
    /\ UNCHANGED <<config, req, errorBodies, scanErr, line, msg, msgLines, spawned, err,
                   slept, attempts, failures, tasks>>

(* Lines 105-113: client.Do returns a response.  Only the 200 path reaches *)
(* the defer of resp.Body.Close.                                           *)
Respond(status) ==
    /\ pc = "connecting"
    /\ resp' = [StatusCode |-> status]
    /\ IF status # StatusOK
       THEN /\ log' = [level |-> "ERROR", msg |-> "invalid status code",
                       attrs |-> [expected |-> StatusOK, domain |-> ntfyDomain,
                                  statusCode |-> FormatInt(status)]]
            /\ errorBodies' = TRUE
            /\ Return(StatusError(status))
            /\ UNCHANGED streamBodies
       ELSE /\ streamBodies' = streamBodies + 1
            /\ pc' = "streaming"
            /\ UNCHANGED <<errorBodies, err, log, failures, line, msg>>
    /\ UNCHANGED <<config, req, scanErr, msgLines, spawned, slept, attempts, tasks>>

(* The end of the stream without the deferred close. *)
StreamEndNoClose(cause) ==
    /\ pc = "streaming"
    /\ scanErr' = cause
    /\ Return(Nil)
    /\ UNCHANGED <<config, req, resp, streamBodies, errorBodies, msgLines, spawned, log,
                   slept, attempts, tasks>>

(* An end of the stream that takes the session's goroutines with it. *)
StreamEndCancels(cause) ==
    /\ pc = "streaming"
    /\ scanErr' = cause
    /\ streamBodies' = streamBodies - 1
    /\ Return(Nil)
    /\ tasks' = <<>>
    /\ UNCHANGED <<config, req, resp, errorBodies, msgLines, spawned, log, slept,
                   attempts>>

(* An end of the stream that returns scanner.Err(). *)
StreamEndReportsError(cause) ==
    /\ pc = "streaming"
    /\ scanErr' = cause
    /\ streamBodies' = streamBodies - 1
    /\ Return(cause)
    /\ UNCHANGED <<config, req, resp, errorBodies, msgLines, spawned, log, slept,
                   attempts, tasks>>

(* Lines 116, 149 and the deferred close of line 113: scanner.Scan returns *)
(* false (end of stream, a read error, a line over the token limit), the   *)
(* body is closed and nil is returned.                                     *)
StreamEnd(cause) ==
    /\ pc = "streaming"
    /\ scanErr' = cause
    /\ streamBodies' = streamBodies - 1
    /\ Return(Nil)
    /\ UNCHANGED <<config, req, resp, errorBodies, msgLines, spawned, log, slept,
                   attempts, tasks>>

(* A text that carries the title markup even when the title is empty. *)
PostTextAlways(m) == "**" \o m.Title \o "**: " \o m.Message

(* Lines 133-141: the text of the post for a message event. *)
PostText(m) ==
    IF m.Title # "" THEN "**" \o m.Title \o "**: " \o m.Message ELSE m.Message

(* A nil *slackMessage. *)
NilMessage == [nil |-> TRUE]

(* A goroutine started by `go sendToSlack(&slackMessage{Text: text})`;     *)
(* posts counts the requests its client.Do put on the wire.                *)
NewTask(text) ==
    [webhook |-> [Text |-> text], phase |-> "spawned", body |-> "", status |-> 0,
     ret |-> Nil, logged |-> <<>>, posts |-> 0]

(* A switch whose default branch sends as well. *)
SwitchDefaultSends(l, r) ==
    CASE r.msg.Event = "open" ->
            [log |-> [level |-> "INFO", msg |-> "subscription established",
                      attrs |-> [domain |-> ntfyDomain]],
             go |-> <<>>]
      [] r.msg.Event = "keepalive" ->
            [log |-> [level |-> "DEBUG", msg |-> "keepalive"],
             go |-> <<>>]
      [] OTHER ->
            [log |-> [level |-> "INFO", msg |-> "sending message",
                      attrs |-> [title |-> r.msg.Title, message |-> r.msg.Message]],
             go |-> <<NewTask(PostText(r.msg))>>]

(* A switch that sends only the message events that have a title. *)
SwitchTitledOnly(l, r) ==
    CASE r.msg.Event = "open" ->
            [log |-> [level |-> "INFO", msg |-> "subscription established",
                      attrs |-> [domain |-> ntfyDomain]],
             go |-> <<>>]
      [] r.msg.Event = "keepalive" ->
            [log |-> [level |-> "DEBUG", msg |-> "keepalive"],
             go |-> <<>>]
      [] r.msg.Event = "message" ->
            [log |-> [level |-> "INFO", msg |-> "sending message",
                      attrs |-> [title |-> r.msg.Title, message |-> r.msg.Message]],
             go |-> IF r.msg.Title # "" THEN <<NewTask(PostText(r.msg))>> ELSE <<>>]
      [] OTHER ->
            [log |-> [level |-> "WARN", msg |-> "bad message received",
                      attrs |-> [message |-> l]],
             go |-> <<>>]

(* Lines 124-146, the switch on msg.Event of a decoded line: the record   *)
(* logged and the goroutines started.                                      *)
Switch(l, r) ==
    CASE r.msg.Event = "open" ->
            [log |-> [level |-> "INFO", msg |-> "subscription established",
                      attrs |-> [domain |-> ntfyDomain]],
             go |-> <<>>]
      [] r.msg.Event = "keepalive" ->
            [log |-> [level |-> "DEBUG", msg |-> "keepalive"],
             go |-> <<>>]
      [] r.msg.Event = "message" ->
            [log |-> [level |-> "INFO", msg |-> "sending message",
                      attrs |-> [title |-> r.msg.Title, message |-> r.msg.Message]],
             go |-> <<NewTask(PostText(r.msg))>>]
      [] OTHER ->
            [log |-> [level |-> "WARN", msg |-> "bad message received",
                      attrs |-> [message |-> l]],
             go |-> <<>>]

(* An iteration without the continue of line 121: a line that failed to  *)
(* decode is logged and then falls into the switch.                        *)
HandleNoContinue(l, r) ==
    IF r.err # Nil
    THEN [log |-> [level |-> "ERROR", msg |-> "error while processing ntfy message",
                   attrs |-> [err |-> r.err, text |-> l]],
          go |-> Switch(l, r).go]
    ELSE Switch(l, r)

(* Lines 117-146, one iteration of the scanner loop on the result r of     *)
(* json.Unmarshal: a line that failed to decode is logged and skipped, a   *)
(* decoded one goes to the switch.  Every branch ends in continue.         *)
Handle(l, r) ==
    IF r.err # Nil
    THEN [log |-> [level |-> "ERROR", msg |-> "error while processing ntfy message",
                   attrs |-> [err |-> r.err, text |-> l]],
          go |-> <<>>]
    ELSE Switch(l, r)

(* A scanner loop that takes the next line only once the goroutines it   *)
(* started have ended.                                                     *)
ReadLineAwaits(l) ==
    /\ pc = "streaming"
    /\ tasks = <<>>
    /\ LET r == Unmarshal(l, ZeroMsg)
           h == Handle(l, r)
           isMessage == r.err = Nil /\ r.msg.Event = "message"
       IN  /\ isMessage => msgLines < MaxMessages /\ Len(tasks) < MaxInFlight
           /\ line' = l
           /\ msg' = r.msg
           /\ log' = h.log
           /\ tasks' = tasks \o h.go
           /\ spawned' = spawned + Len(h.go)
           /\ msgLines' = msgLines + IF isMessage THEN 1 ELSE 0
    /\ UNCHANGED <<config, req, resp, streamBodies, errorBodies, scanErr, pc, err,
                   slept, attempts, failures>>

(* The server sends line l and the loop of lines 116-147 handles it.  The  *)
(* server sends a message event only while the model's bounds allow one    *)
(* more delivery.                                                          *)
ReadLine(l) ==
    /\ pc = "streaming"
    /\ LET r == Unmarshal(l, ZeroMsg)
           h == Handle(l, r)
           isMessage == r.err = Nil /\ r.msg.Event = "message"
       IN  /\ isMessage => msgLines < MaxMessages /\ Len(tasks) < MaxInFlight
           /\ line' = l
           /\ msg' = r.msg
           /\ log' = h.log
           /\ tasks' = tasks \o h.go
           /\ spawned' = spawned + Len(h.go)
           /\ msgLines' = msgLines + IF isMessage THEN 1 ELSE 0
    /\ UNCHANGED <<config, req, resp, streamBodies, errorBodies, scanErr, pc, err,
                   slept, attempts, failures>>

----------------------------------------------------------------------------
(* sendToSlack, one goroutine per message event. *)

(* What the webhook may answer: a status, whether the body can be read to *)
(* its end, whether closing it succeeds.                                   *)
Reply(status, readOk, closeOk) == [status |-> status, readOk |-> readOk, closeOk |-> closeOk]

Replies ==
    { Reply(200, TRUE, TRUE), Reply(399, TRUE, TRUE), Reply(400, TRUE, TRUE),
      Reply(500, TRUE, TRUE), Reply(200, FALSE, TRUE), Reply(500, FALSE, TRUE),
      Reply(200, TRUE, FALSE) }

(* The escaping json.Marshal applies to a string, from its k-th character *)
(* on: a quote and a backslash get a backslash before them.                *)
RECURSIVE JsonEscapeFrom(_, _)
JsonEscapeFrom(s, k) ==
    IF k > Len(s) THEN ""
    ELSE LET c == SubSeq(s, k, k)
         IN  (IF c = "\"" THEN "\\\""
              ELSE IF c = "\\" THEN "\\\\"
              ELSE c) \o JsonEscapeFrom(s, k + 1)

JsonEscape(s) == JsonEscapeFrom(s, 1)

(* json.Marshal of a slackMessage (line 157). *)
Marshal(w) == "{\"text\":\"" \o JsonEscape(w.Text) \o "\"}"

(* client.Do refuses a URL without an http or https scheme before any I/O. *)
DoRefuses(url) == ~(HasPrefix(url, "https://") \/ HasPrefix(url, "http://"))

(* The error of line 191. *)
RejectedError(status) == "error status code " \o FormatInt(status)

(* A status check that lets 400 itself pass. *)
IsErrorStatusAbove(status) == status > ErrorStatusFloor

(* Whether a response status is a failure (line 190). *)
IsErrorStatus(status) == status >= ErrorStatusFloor

Replace(i, t) == [tasks EXCEPT ![i] = t]

(* sendToSlack returns e after logging records: its argument and locals   *)
(* go out of scope.                                                        *)
Returned(t, e, records) ==
    [t EXCEPT !.phase = "returned", !.ret = e, !.logged = t.logged \o records,
              !.webhook = NilMessage, !.body = ""]

(* A sendToSlack that sends only after the goroutines started before it   *)
(* have sent.                                                              *)
TaskSendInOrder(i) ==
    /\ i \in DOMAIN tasks
    /\ tasks[i].phase = "spawned"
    /\ \A k \in 1..(i - 1) : tasks[k].phase # "spawned"
    /\ LET t == tasks[i]
           e == NewRequestError("POST", slackWebhookUrl)
       IN  tasks' = Replace(i,
                IF t.webhook = NilMessage THEN Returned(t, "webhook undefined", <<>>)
                ELSE IF e # Nil THEN Returned(t, e, <<>>)
                ELSE IF DoRefuses(slackWebhookUrl)
                     THEN Returned(t, "Post \"" \o slackWebhookUrl
                                      \o "\": unsupported protocol scheme", <<>>)
                ELSE [t EXCEPT !.phase = "posting", !.body = Marshal(t.webhook),
                               !.posts = t.posts + 1])
    /\ UNCHANGED <<config, session, loop>>

(* Lines 153-173: nil check, marshal, request; client.Do either fails     *)
(* before any I/O or puts the POST on the wire.                            *)
TaskSend(i) ==
    /\ i \in DOMAIN tasks
    /\ tasks[i].phase = "spawned"
    /\ LET t == tasks[i]
           e == NewRequestError("POST", slackWebhookUrl)
       IN  tasks' = Replace(i,
                IF t.webhook = NilMessage THEN Returned(t, "webhook undefined", <<>>)
                ELSE IF e # Nil THEN Returned(t, e, <<>>)
                ELSE IF DoRefuses(slackWebhookUrl)
                     THEN Returned(t, "Post \"" \o slackWebhookUrl
                                      \o "\": unsupported protocol scheme", <<>>)
                ELSE [t EXCEPT !.phase = "posting", !.body = Marshal(t.webhook),
                               !.posts = t.posts + 1])
    /\ UNCHANGED <<config, session, loop>>

(* A sendToSlack that starts over when its POST fails on the network. *)
TaskConnectFailRetries(i) ==
    /\ i \in DOMAIN tasks
    /\ tasks[i].phase = "posting"
    /\ tasks' = Replace(i, [tasks[i] EXCEPT !.phase = "spawned", !.body = ""])
    /\ UNCHANGED <<config, session, loop>>

(* Lines 173-176: the POST fails on the network. *)
TaskConnectFail(i) ==
    /\ i \in DOMAIN tasks
    /\ tasks[i].phase = "posting"
    /\ tasks' = Replace(i, Returned(tasks[i],
                    "Post \"" \o slackWebhookUrl \o "\": dial tcp: connection refused",
                    <<>>))
    /\ UNCHANGED <<config, session, loop>>

(* Lines 177-194 on a response with this status: read the body, check the *)
(* status, and close the body on the way out.                              *)
SendResult(t, status, readOk, closeOk) ==
    LET closing == IF closeOk THEN <<>>
                   ELSE <<[level |-> "ERROR", msg |-> "error closing response body"]>>
    IN  IF ~readOk
        THEN Returned([t EXCEPT !.status = status], "unexpected EOF",
                      <<[level |-> "ERROR", msg |-> "error parsing body"]>> \o closing)
        ELSE Returned([t EXCEPT !.status = status],
                      IF IsErrorStatus(status) THEN RejectedError(status) ELSE Nil,
                      <<[level |-> "DEBUG", msg |-> "slack response",
                         attrs |-> [status |-> status]]>> \o closing)

TaskResponse(i, status, readOk, closeOk) ==
    /\ i \in DOMAIN tasks
    /\ tasks[i].phase = "posting"
    /\ tasks' = Replace(i, SendResult(tasks[i], status, readOk, closeOk))
    /\ UNCHANGED <<config, session, loop>>

(* A goroutine that ends the process when sendToSlack returned an error. *)
TaskExitFatal(i) ==
    /\ i \in DOMAIN tasks
    /\ tasks[i].phase = "returned"
    /\ tasks' = [j \in 1..(Len(tasks) - 1) |-> IF j < i THEN tasks[j] ELSE tasks[j + 1]]
    /\ pc' = IF tasks[i].ret # Nil THEN "exited" ELSE pc
    /\ UNCHANGED <<config, session, err, log, slept, attempts, failures>>

(* The goroutine ends; nothing receives the value sendToSlack returned. *)
TaskExit(i) ==
    /\ i \in DOMAIN tasks
    /\ tasks[i].phase = "returned"
    /\ tasks' = [j \in 1..(Len(tasks) - 1) |-> IF j < i THEN tasks[j] ELSE tasks[j + 1]]
    /\ UNCHANGED <<config, session, loop>>

----------------------------------------------------------------------------
(* main, lines 80-87. *)

(* Lines 81-85: log the outcome of the call. *)
LogOutcome ==
    /\ pc = "returned"
    /\ log' = IF err # Nil
              THEN [level |-> "ERROR", msg |-> "waitForNtfyMessage", attrs |-> [err |-> err]]
              ELSE [level |-> "INFO", msg |-> "connection closed, restarting"]
    /\ pc' = "sleeping"
    /\ UNCHANGED <<config, session, err, slept, attempts, failures, tasks>>

(* A loop that stops retrying once the failures reach a maximum. *)
SleepGivesUp ==
    /\ pc = "sleeping"
    /\ slept' = Append(slept, BackoffSeconds)
    /\ pc' = IF failures >= MaxFailures THEN "exited" ELSE "call"
    /\ UNCHANGED <<config, session, err, log, attempts, failures, tasks>>

(* Line 86: time.Sleep(30 * time.Second) returns; back to the top of the loop. *)
Sleep ==
    /\ pc = "sleeping"
    /\ slept' = Append(slept, BackoffSeconds)
    /\ pc' = "call"
    /\ UNCHANGED <<config, session, err, log, attempts, failures, tasks>>

Next ==
    \/ ParseFlags
    \/ Call
    \/ ConnectFail
    \/ \E status \in InboundStatuses : Respond(status)
    \/ \E l \in Lines : ReadLine(l)
    \/ \E cause \in ScanEnds : StreamEnd(cause)
    \/ \E i \in 1..MaxInFlight : TaskSend(i)
    \/ \E i \in 1..MaxInFlight : TaskConnectFail(i)
    \/ \E i \in 1..MaxInFlight, r \in Replies :
          TaskResponse(i, r.status, r.readOk, r.closeOk)
    \/ \E i \in 1..MaxInFlight : TaskExit(i)
    \/ LogOutcome
    \/ Sleep

Spec == Init /\ [][Next]_vars

(* The main goroutine is scheduled: a return is logged, a sleep ends, the  *)
(* loop calls again.  Nothing is assumed of the servers.                   *)
FairSpec ==
    Spec /\ WF_vars(ParseFlags) /\ WF_vars(LogOutcome) /\ WF_vars(Sleep) /\ WF_vars(Call)

----------------------------------------------------------------------------
(* Properties. *)

(* C1: the loop never gives up.  After every outcome of a session (connect *)
(* failure, status other than 200, end of stream by close or read error),  *)
(* whatever the number of consecutive failures so far, a new request is    *)
(* put on the wire; the process leaves the loop only by the version flag.  *)
C1_NeverGivesUp ==
    /\ [](pc = "exited" => args.v)
    /\ \A n \in 0..MaxFailures :
          (pc = "returned" /\ req # NoReq /\ failures = n) ~> (pc = "connecting")

C1_Witness == pc = "connecting" /\ failures = MaxFailures /\ errorBodies

(* C2: the sleeps since the last call are none until the loop is back at   *)
(* its top, and there exactly one of 30 seconds, whatever the outcome and  *)
(* the number of failures; the first call follows no sleep.                *)
C2_FixedBackoff ==
    slept = IF pc = "call" /\ attempts > 0 THEN <<30>> ELSE <<>>

C2_Witness == pc = "call" /\ slept = <<30>> /\ failures = MaxFailures

(* C3: at most one streaming response is open, it is open exactly while    *)
(* the call is in its scanner loop, and a later call starts only after the *)
(* earlier one returned and a sleep ended.                                 *)
C3_OneSession ==
    /\ streamBodies = IF pc = "streaming" THEN 1 ELSE 0
    /\ (pc = "call" /\ attempts > 0) => slept # <<>>

C3_Witness == pc = "streaming" /\ streamBodies = 1 /\ spawned = 0 /\ tasks # <<>>

(* What a line holds under a key, read from the line itself. *)
FieldOf(l, key) ==
    IF l.syntax = "object" /\ key \in DOMAIN l.fields /\ l.fields[key].type = "string"
    THEN l.fields[key].val
    ELSE ""

FailsToDecode(l) == Unmarshal(l, ZeroMsg).err # Nil

(* A step of the scanner loop that takes a new line. *)
ReadsLine == pc = "streaming" /\ line' # NoLine /\ line' # line

(* A step that starts a goroutine. *)
Spawns == Len(tasks') > Len(tasks)

(* C4: a line that fails to decode, wherever it stands in the stream, is   *)
(* skipped: the call stays in its scanner loop on the same open response,  *)
(* and no goroutine is started for the line.                               *)
C4_DecodeFailureSkipped ==
    [][(ReadsLine /\ FailsToDecode(line')) =>
          /\ pc' = "streaming"
          /\ tasks' = tasks /\ spawned' = spawned
          /\ UNCHANGED <<req, resp, streamBodies, err>>]_vars

C4_Witness == pc = "streaming" /\ line = LMsgBadTime /\ msgLines = 1 /\ streamBodies = 1

(* C5: the text handed to the goroutine of a message event is              *)
(* "**" + title + "**: " + body when the event has a non-empty title and   *)
(* the body alone otherwise, whatever was read before.                     *)
C5_PostText ==
    [][Spawns =>
          LET t == tasks'[Len(tasks')]
              title == FieldOf(line', "title")
              body == FieldOf(line', "message")
          IN  /\ Len(tasks') = Len(tasks) + 1
              /\ t.phase = "spawned"
              /\ t.webhook.Text = IF title # "" THEN "**" \o title \o "**: " \o body ELSE body
              /\ line' = LMsgTitled => t.webhook.Text = "**Alert**: disk full"
              /\ line' = LMsgPlain => t.webhook.Text = "ping"
              /\ line' = LMsgEmptyTitle => t.webhook.Text = "ping"]_vars

C5_Witness ==
    /\ line = LMsgEmptyTitle /\ msgLines = 2
    /\ tasks # <<>> /\ tasks[Len(tasks)] = NewTask("ping")

(* C6: a goroutine is started only for a decoded line whose event is       *)
(* exactly "message"; after every other decoded line (open, keepalive, an  *)
(* unknown, empty or missing event) none is started and the scanner loop   *)
(* goes on.                                                                *)
C6_OnlyMessageDispatched ==
    [][/\ Spawns => ~FailsToDecode(line') /\ FieldOf(line', "event") = "message"
       /\ (ReadsLine /\ ~FailsToDecode(line') /\ FieldOf(line', "event") # "message") =>
             /\ pc' = "streaming"
             /\ tasks' = tasks /\ spawned' = spawned
             /\ UNCHANGED <<req, resp, streamBodies, err>>]_vars

C6_Witness == pc = "streaming" /\ line = LNoEvent /\ msgLines = 1 /\ spawned = 1

(* C7: a session has started exactly as many goroutines as it has decoded  *)
(* message events, at its end and at every point before it.                *)
C7_EveryMessageOnce == spawned = msgLines

C7_Witness == pc = "returned" /\ msgLines = MaxMessages /\ spawned = MaxMessages

(* C8: a step of a delivery goroutine, whatever its outcome, changes       *)
(* nothing of the main goroutine: not its position, not the open response, *)
(* not what it has read; and the scanner loop can always take a next line. *)
C8_DeliveryFrame ==
    /\ [][(tasks' # tasks /\ ~Spawns) => UNCHANGED <<config, session, loop>>]_vars
    /\ [](pc = "streaming" => ENABLED ReadLine(LKeepalive))

C8_Witness ==
    /\ pc = "streaming" /\ streamBodies = 1 /\ line = LKeepalive
    /\ \E i \in DOMAIN tasks :
          tasks[i].phase = "returned" /\ tasks[i].ret = "error status code 500"

(* Whether sendToSlack failed to read the body of its response. *)
ReadFailed(t) == \E k \in DOMAIN t.logged : t.logged[k].msg = "error parsing body"

(* C9 as stated: sendToSlack reports success for every response below 400, *)
(* a rejection carrying the status for every response from 400 up, and an  *)
(* error when no response came.                                            *)
C9_AsStated ==
    \A i \in DOMAIN tasks :
        LET t == tasks[i] IN
        t.phase = "returned" =>
            /\ (t.status # 0 /\ t.status < 400) => t.ret = Nil
            /\ t.status >= 400 => t.ret = "error status code " \o ToString(t.status)
            /\ t.status = 0 => t.ret # Nil

(* C9, amended: the classification by status holds for the responses whose *)
(* body was read to its end (399 is a success, 400 a rejection carrying    *)
(* 400); a failure to read the body makes sendToSlack report the read      *)
(* error whatever the status; no response at all is an error.              *)
C9_Classification ==
    \A i \in DOMAIN tasks :
        LET t == tasks[i] IN
        t.phase = "returned" =>
            /\ (t.status # 0 /\ ~ReadFailed(t) /\ t.status < 400) => t.ret = Nil
            /\ (~ReadFailed(t) /\ t.status >= 400) =>
                  t.ret = "error status code " \o ToString(t.status)
            /\ (~ReadFailed(t) /\ t.status = 399) => t.ret = Nil
            /\ (~ReadFailed(t) /\ t.status = 400) => t.ret = "error status code 400"
            /\ ReadFailed(t) => t.status # 0 /\ t.ret = "unexpected EOF"
            /\ t.status = 0 => t.ret # Nil

C9_Witness ==
    \E i \in DOMAIN tasks :
        /\ tasks[i].phase = "returned" /\ tasks[i].status = 400
        /\ tasks[i].ret = "error status code 400"

(* The response of the last call had a status other than 200. *)
BadStatus == resp.StatusCode \notin {0, 200}

(* C10 as stated: a status other than 200 ends the session with an error   *)
(* that carries the status code, before any line is read or any goroutine  *)
(* started.                                                                *)
C10_AsStated ==
    (pc = "returned" /\ BadStatus) =>
        /\ err # Nil /\ Contains(err, ToString(resp.StatusCode))
        /\ line = NoLine /\ msgLines = 0 /\ spawned = 0

(* C10, amended: a status other than 200 ends the session with the fixed   *)
(* error "invalid response code from ntfy", which does not carry the       *)
(* status code; the code is in the record logged before the return.  No    *)
(* line is read, no goroutine started, and the next request equals the     *)
(* one that was answered: same host, topic and credential.                 *)
C10_BadStatusEndsSession ==
    /\ [](BadStatus =>
            /\ pc \in {"returned", "sleeping", "call"}
            /\ err = "invalid response code from ntfy"
            /\ ~Contains(err, ToString(resp.StatusCode))
            /\ line = NoLine /\ msgLines = 0 /\ spawned = 0
            /\ pc = "returned" =>
                  /\ log.msg = "invalid status code"
                  /\ log.attrs.statusCode = ToString(resp.StatusCode))
    /\ [][(BadStatus /\ pc = "call" /\ pc' = "connecting") => req' = req]_vars

C10_Witness ==
    /\ pc = "returned" /\ resp.StatusCode = 401 /\ failures >= 2
    /\ req.header.Authorization = "Bearer tk"

(* Whether sendToSlack logged a record of a failure before it returned. *)
LoggedFailure(t) ==
    \E k \in DOMAIN t.logged : t.logged[k].level \in {"ERROR", "WARN"}

(* A delivery whose POST went out and that ended in failure for want of a *)
(* response or by a status from 400 up.                                    *)
DeliveryFailed(t) ==
    /\ t.phase = "returned" /\ t.ret # Nil /\ t.posts > 0
    /\ t.status = 0 \/ t.status >= 400

(* C11: every delivery that ends in failure (connect failure, or a status *)
(* from 400 up) has logged a record of that failure by the time its        *)
(* goroutine ends.                                                         *)
C11_FailureLogged ==
    \A i \in DOMAIN tasks : DeliveryFailed(tasks[i]) => LoggedFailure(tasks[i])

(* One step of sendToSlack took the goroutine t to u: towards its return,  *)
(* with one more POST exactly when client.Do put the request on the wire.  *)
StepsForward(t, u) ==
    /\ t.phase \in {"spawned", "posting"}
    /\ u.phase \in (IF t.phase = "spawned" THEN {"posting", "returned"} ELSE {"returned"})
    /\ u.posts = t.posts + (IF t.phase = "spawned" /\ u.phase = "posting" THEN 1 ELSE 0)

(* C12: a goroutine puts at most one POST on the wire and then ends.  Its  *)
(* steps only go forward (spawned, posting, returned), a returned one      *)
(* takes no step but its exit whatever it returned, and a goroutine is     *)
(* started only by reading a message event, one for the event, leaving the *)
(* others as they are: the POSTs never outnumber the message events read.  *)
C12_OnePost ==
    /\ [](\A i \in DOMAIN tasks :
            /\ tasks[i].posts = IF tasks[i].phase = "spawned" THEN 0
                                ELSE IF tasks[i].phase = "posting" THEN 1
                                ELSE tasks[i].posts
            /\ tasks[i].posts <= 1
            /\ tasks[i].phase = "returned" => ENABLED TaskExit(i))
    /\ [][/\ Spawns =>
                /\ pc = "streaming" /\ FieldOf(line', "event") = "message"
                /\ msgLines' = msgLines + 1
                /\ Len(tasks') = Len(tasks) + 1
                /\ SubSeq(tasks', 1, Len(tasks)) = tasks
                /\ tasks'[Len(tasks')].posts = 0
          /\ Len(tasks') = Len(tasks) =>
                \A i \in DOMAIN tasks :
                    tasks'[i] # tasks[i] => StepsForward(tasks[i], tasks'[i])
          /\ Len(tasks') < Len(tasks) =>
                \E i \in DOMAIN tasks :
                    /\ tasks[i].phase = "returned"
                    /\ tasks' = SubSeq(tasks, 1, i - 1) \o SubSeq(tasks, i + 1, Len(tasks))]_vars

C12_Witness ==
    /\ pc = "streaming" /\ msgLines = 1 /\ Len(tasks) = 1
    /\ tasks[1].phase = "returned" /\ tasks[1].posts = 1
    /\ tasks[1].ret = "Post \"https://hooks.example/x\": dial tcp: connection refused"

(* Whether a line decodes to a message event. *)
IsMessageLine(l) == ~FailsToDecode(l) /\ FieldOf(l, "event") = "message"

(* C13: reading does not wait for deliveries.  In the scanner loop every   *)
(* line the server can send is taken, and a message event dispatched while *)
(* the bounds leave room for one more, whatever the goroutines alive are   *)
(* doing; taking a line leaves the loop in place and the goroutines alive  *)
(* as they were.                                                           *)
C13_ReadNotBlocked ==
    /\ [](\A l \in Lines :
            ENABLED ReadLine(l) <=>
                /\ pc = "streaming"
                /\ IsMessageLine(l) => msgLines < MaxMessages /\ Len(tasks) < MaxInFlight)
    /\ [][(ReadsLine \/ Spawns) =>
              /\ pc' = "streaming"
              /\ SubSeq(tasks', 1, Len(tasks)) = tasks]_vars

C13_Witness ==
    /\ pc = "streaming" /\ spawned = 2 /\ line = LKeepalive
    /\ Len(tasks) = 2 /\ tasks[1].phase = "posting" /\ tasks[2].phase = "spawned"

(* C14: the order of the POSTs is not the order of the reads.  Of two      *)
(* goroutines alive, the one started later can send while the one started  *)
(* earlier has not: with a usable webhook URL its POST goes on the wire    *)
(* and the earlier goroutine still has sent nothing.                       *)
C14_NoOrdering ==
    /\ [](\A i, j \in DOMAIN tasks :
            (i < j /\ tasks[i].phase = "spawned" /\ tasks[j].phase = "spawned") =>
                ENABLED TaskSend(j))
    /\ [][\A j \in DOMAIN tasks :
            (Len(tasks') = Len(tasks) /\ tasks[j].phase = "spawned"
                                      /\ tasks'[j].phase # "spawned") =>
                /\ \A i \in DOMAIN tasks \ {j} : tasks'[i] = tasks[i]
                /\ ~DoRefuses(slackWebhookUrl) =>
                      tasks'[j].phase = "posting" /\ tasks'[j].posts = 1]_vars

(* Two message events read by one session, A then B: the POST for B was   *)
(* answered by the webhook and the POST for A has not been sent.           *)
C14_Witness ==
    /\ pc = "streaming" /\ msgLines = 2 /\ spawned = 2 /\ Len(tasks) = 2
    /\ tasks[1] = NewTask("**Alert**: disk full")
    /\ tasks[2].phase = "returned" /\ tasks[2].posts = 1
    /\ tasks[2].status = 200 /\ tasks[2].ret = Nil

(* C15: the end of a session neither waits for the goroutines it started   *)
(* nor stops them.  The stream can end whatever the goroutines are doing;  *)
(* every step that moves the main goroutine (return, log, sleep, next      *)
(* call, response) leaves the goroutines as they are; and wherever the     *)
(* main goroutine stands, a goroutine that has not sent can send and one   *)
(* whose POST is on the wire can take its response.                        *)
C15_OutlivesSession ==
    /\ [](pc = "streaming" => \A cause \in ScanEnds : ENABLED StreamEnd(cause))
    /\ [](pc = "returned" => ENABLED LogOutcome)
    /\ [](pc = "sleeping" => ENABLED Sleep)
    /\ [](pc = "call" => ENABLED Call)
    /\ [][pc' # pc => tasks' = tasks]_vars
    /\ [](\A i \in DOMAIN tasks :
            /\ tasks[i].phase = "spawned" => ENABLED TaskSend(i)
            /\ tasks[i].phase = "posting" => ENABLED TaskResponse(i, 200, TRUE, TRUE))

(* A later session is open and has read its first line while a goroutine  *)
(* of an earlier session has yet to send its POST.                         *)
C15_Witness ==
    /\ pc = "streaming" /\ line = LOpen /\ msgLines = 0 /\ spawned = 0
    /\ attempts = MaxAttempts /\ tasks = <<NewTask("ping")>>

(* C16: when waitForNtfyMessage has returned, the body of every response   *)
(* it obtained is closed, that of a status other than 200 as well as that  *)
(* of a stream.                                                            *)
C16_BodiesClosed ==
    pc \in {"returned", "sleeping", "call"} => streamBodies = 0 /\ ~errorBodies

(* C17: the request of a call carries "Authorization: Bearer " followed by *)
(* the credential when one is configured, by flag or by environment, and   *)
(* no Authorization header when none is.                                   *)
C17_OptionalBearer ==
    LET configured == args.auth.given \/ env.NTFY_AUTH.ok
        credential == IF args.auth.given THEN args.auth.value ELSE env.NTFY_AUTH.value
    IN  req # NoReq =>
            req.header.Authorization =
                IF configured THEN "Bearer " \o credential ELSE Nil

NoWebhookConfigured == ~args.webhook.given /\ ~env.SLACK_WEBHOOK_URL.ok

(* C19: with no webhook URL configured, sendToSlack fails with the error   *)
(* "webhook undefined" before any network I/O, for every message event: no *)
(* POST goes on the wire.                                                  *)
C19_ConfigurationError ==
    NoWebhookConfigured =>
        \A i \in DOMAIN tasks :
            /\ tasks[i].phase \in {"spawned", "returned"} /\ tasks[i].posts = 0
            /\ tasks[i].phase = "returned" => tasks[i].ret = "webhook undefined"

(* C20: a call that got status 200 returns nil however its stream ended,   *)
(* by a close, a read error or a line over the scanner's limit, and main   *)
(* logs "connection closed, restarting" in each case; main sees an error   *)
(* only when the request could not be built, the connection failed or the  *)
(* status was not 200.                                                     *)
C20_StreamEndIsNil ==
    /\ [][(pc = "streaming" /\ pc' # "streaming") =>
              /\ pc' = "returned" /\ scanErr' \in ScanEnds
              /\ err' = Nil /\ failures' = 0]_vars
    /\ []((pc \in {"returned", "sleeping"} /\ resp.StatusCode = 200) =>
              /\ err = Nil
              /\ pc = "sleeping" =>
                    log = [level |-> "INFO", msg |-> "connection closed, restarting"])
    /\ []((pc \in {"returned", "sleeping"} /\ err # Nil) =>
              /\ scanErr = Nil
              /\ req = NoReq \/ resp = NoResp \/ BadStatus
              /\ pc = "sleeping" => log.level = "ERROR" /\ log.msg = "waitForNtfyMessage")

C20_Witness ==
    /\ pc = "sleeping" /\ scanErr = "bufio.Scanner: token too long"
    /\ resp.StatusCode = 200 /\ err = Nil /\ failures = 0
    /\ log.msg = "connection closed, restarting"
====
